---- MODULE Spec2Model ----
(***************************************************************************)
(* A model of the diff_func library (src/src/lib.rs): expression trees for *)
(* single-variable real functions with evaluation, symbolic                *)
(* differentiation, expansion into a term list, the Sum fold of a term     *)
(* list and textual rendering.                                             *)
(*                                                                         *)
(* A Function (Rc<dyn FunctionTrait>) is a record whose `kind` names the   *)
(* implementing struct and whose other fields are the struct's fields.     *)
(* Reference counting is not observable (nodes are immutable), so a handle *)
(* is modelled by the tree it points to.                                   *)
(***************************************************************************)
EXTENDS Integers, Sequences, FiniteSets

\* Largest number of nodes of the expressions built over DeepLeaves.
MaxNodes == 5
\* Largest number of nodes of the expressions built over every leaf kind.
MaxFullNodes == 3
\* Largest number of nodes of a subexpression the caller uses twice.
MaxShared == 3
\* Constants Const(0.0) .. Const(MaxConst.0).
MaxConst == 2
\* Sample points -MaxX .. MaxX.
MaxX == 1
\* Longest slice handed to SumFunction::from_many directly.
MaxLen == 3

----------------------------------------------------------------------------
(* Constructors *)

\* UnaryFunction::Const(c).new()
Const(c) == [kind |-> "Const", c |-> c]
\* UnaryFunction::Id.new(), Sin, Cos, Exp, Log
Id == [kind |-> "Id"]
Sin == [kind |-> "Sin"]
Cos == [kind |-> "Cos"]
Exp == [kind |-> "Exp"]
Log == [kind |-> "Log"]

UnaryKinds == {"Const", "Id", "Sin", "Cos", "Exp", "Log"}

SumFunction_new(left, right) == [kind |-> "Sum", left |-> left, right |-> right]
DifferenceFunction_new(left, right) ==
    [kind |-> "Difference", left |-> left, right |-> right]
NegativeFunction_new(source) == [kind |-> "Negative", source |-> source]
ProductFunction_new(left, right) ==
    [kind |-> "Product", left |-> left, right |-> right]
QuotientFunction_new(top, bottom) ==
    [kind |-> "Quotient", top |-> top, bottom |-> bottom]
\* new(source, target) stores the struct { target, source }.
ComposedFunction_new(source, target) ==
    [kind |-> "Composed", target |-> target, source |-> source]

\* The combinator traits implemented for Function.
of(self, other) == ComposedFunction_new(self, other)
add(self, other) == SumFunction_new(self, other)
sub(self, other) == DifferenceFunction_new(self, other)
neg(self) == NegativeFunction_new(self)
mul(self, other) == ProductFunction_new(self, other)
div(self, other) == QuotientFunction_new(self, other)

BinaryOps == {"of", "add", "sub", "mul", "div"}

Combine(op, self, other) ==
    CASE op = "of" -> of(self, other)
      [] op = "add" -> add(self, other)
      [] op = "sub" -> sub(self, other)
      [] op = "mul" -> mul(self, other)
      [] op = "div" -> div(self, other)

----------------------------------------------------------------------------
(* The expressions the operations are applied to *)

AllLeaves == {Const(c) : c \in 0..MaxConst} \cup {Id, Sin, Cos, Exp, Log}
DeepLeaves == {Id, Const(1)}

\* <<S_1, ..., S_n>>, S_k the expressions of exactly k nodes over the leaves.
RECURSIVE BySize(_, _)
BySize(leaves, n) ==
    IF n = 1 THEN <<leaves>>
    ELSE LET prev == BySize(leaves, n - 1)
         IN  Append(prev,
                    {neg(e) : e \in prev[n - 1]}
                    \cup UNION {{Combine(op, a, b) :
                                    op \in BinaryOps, a \in prev[i],
                                    b \in prev[n - 1 - i]}
                                : i \in 1..(n - 2)})

UpTo(leaves, n) ==
    IF n < 1 THEN {}
    ELSE LET levels == BySize(leaves, n)
         IN  UNION {levels[k] : k \in 1..n}

\* op(a, a): both operands are clones of one Rc.
Shared == {Combine(op, a, a) : op \in BinaryOps, a \in UpTo(DeepLeaves, MaxShared)}

\* A shared expression combined once more, with a leaf on either side.
SharedThen ==
    {Combine(op, s, l) : op \in BinaryOps, s \in Shared, l \in DeepLeaves}
    \cup {Combine(op, l, s) : op \in BinaryOps, s \in Shared, l \in DeepLeaves}

\* Compositions of compositions of leaves, as main builds
\* Log.of(Log.of(Cos)).
Nested ==
    {of(a, of(b, c)) : a \in AllLeaves, b \in AllLeaves, c \in AllLeaves}
    \cup {of(of(a, b), c) : a \in AllLeaves, b \in AllLeaves, c \in AllLeaves}

\* The expressions the caller builds.
Universe ==
    UpTo(AllLeaves, MaxFullNodes) \cup UpTo(DeepLeaves, MaxNodes)
    \cup Shared \cup SharedThen \cup Nested

----------------------------------------------------------------------------
(* diff *)

UnaryFunction_diff(self) ==
    CASE self.kind = "Const" -> Const(0)
      [] self.kind = "Id" -> Const(1)
      [] self.kind = "Sin" -> Cos
      [] self.kind = "Cos" -> neg(Sin)
      [] self.kind = "Exp" -> Exp
      [] self.kind = "Log" -> div(Const(1), Id)

SumFunction_diff(l_diff, r_diff) == add(l_diff, r_diff)

DifferenceFunction_diff(l_diff, r_diff) == sub(l_diff, r_diff)

NegativeFunction_diff(s_diff) == neg(s_diff)

\* Faulty variant: both cross terms take the right operand.
ProductFunction_diff_SameOperand(self, l_diff, r_diff) ==
    add(mul(l_diff, self.right), mul(r_diff, self.right))

ProductFunction_diff(self, l_diff, r_diff) ==
    LET l_clone == self.left
        r_clone == self.right
        l_term == mul(l_diff, r_clone)
        r_term == mul(r_diff, l_clone)
    IN  add(l_term, r_term)

QuotientFunction_diff(self, t_diff, b_diff) ==
    LET b_sqr == mul(self.bottom, self.bottom)
        l_term == mul(t_diff, self.bottom)
        r_term == mul(b_diff, self.top)
    IN  div(sub(l_term, r_term), b_sqr)

ComposedFunction_diff(self, s_diff, t_diff) ==
    LET t_clone == self.target
    IN  mul(of(s_diff, t_clone), t_diff)

\* FunctionTrait::diff, dispatched on the implementing struct.
RECURSIVE diff(_)
diff(self) ==
    CASE self.kind \in UnaryKinds -> UnaryFunction_diff(self)
      [] self.kind = "Sum" ->
            SumFunction_diff(diff(self.left), diff(self.right))
      [] self.kind = "Difference" ->
            DifferenceFunction_diff(diff(self.left), diff(self.right))
      [] self.kind = "Negative" -> NegativeFunction_diff(diff(self.source))
      [] self.kind = "Product" ->
            ProductFunction_diff(self, diff(self.left), diff(self.right))
      [] self.kind = "Quotient" ->
            QuotientFunction_diff(self, diff(self.top), diff(self.bottom))
      [] self.kind = "Composed" ->
            ComposedFunction_diff(self, diff(self.source), diff(self.target))

----------------------------------------------------------------------------
(* from_many, expand_vec, expand *)

\* The outcome of a call that may panic.
NoFunction == [kind |-> "None"]
Returned(f) == [panicked |-> FALSE, value |-> f]
Panicked == [panicked |-> TRUE, value |-> NoFunction]

\* Faulty variant: an empty slice folds to the zero function.
RECURSIVE SumFunction_from_many_ZeroOnEmpty(_)
SumFunction_from_many_ZeroOnEmpty(many) ==
    CASE Len(many) = 0 -> Returned(Const(0))
      [] Len(many) = 1 -> Returned(many[1])
      [] OTHER ->
            Returned(SumFunction_new(
                many[1], SumFunction_from_many_ZeroOnEmpty(Tail(many)).value))

\* Faulty variant: the fold associates to the left.
RECURSIVE SumFunction_from_many_LeftFold(_)
SumFunction_from_many_LeftFold(many) ==
    CASE Len(many) = 0 -> Panicked
      [] Len(many) = 1 -> Returned(many[1])
      [] OTHER ->
            Returned(SumFunction_new(
                SumFunction_from_many_LeftFold(
                    SubSeq(many, 1, Len(many) - 1)).value,
                many[Len(many)]))

RECURSIVE SumFunction_from_many(_)
SumFunction_from_many(many) ==
    CASE Len(many) = 0 -> Panicked
      [] Len(many) = 1 -> Returned(many[1])
      [] Len(many) = 2 -> Returned(SumFunction_new(many[1], many[2]))
      [] OTHER ->
            LET rest == SumFunction_from_many(Tail(many))
            IN  IF rest.panicked THEN Panicked
                ELSE Returned(SumFunction_new(many[1], rest.value))

RECURSIVE expand_vec(_)

\* Faulty variant: a zero constant contributes no term.
UnaryFunction_expand_vec_DropZero(self) ==
    IF self.kind = "Const" /\ self.c = 0 THEN <<>> ELSE <<self>>

UnaryFunction_expand_vec(self) == <<self>>

SumFunction_expand_vec(l_exps, r_exps) == l_exps \o r_exps

DifferenceFunction_expand_vec(l_exps, r_exps) ==
    l_exps \o [i \in 1..Len(r_exps) |-> neg(r_exps[i])]

\* Faulty variant: the negation is lost.
NegativeFunction_expand_vec_NoNeg(self) == <<self.source>>

NegativeFunction_expand_vec(self) == <<neg(self.source)>>

\* Faulty variant: the loops are nested the other way round.
ProductFunction_expand_vec_RightMajor(l_exps, r_exps) ==
    [k \in 1..(Len(l_exps) * Len(r_exps)) |->
        mul(l_exps[((k - 1) % Len(l_exps)) + 1],
            r_exps[((k - 1) \div Len(l_exps)) + 1])]

\* The nested loops: l_exps outer, r_exps inner, one push per pair.
ProductFunction_expand_vec(l_exps, r_exps) ==
    [k \in 1..(Len(l_exps) * Len(r_exps)) |->
        mul(l_exps[((k - 1) \div Len(r_exps)) + 1],
            r_exps[((k - 1) % Len(r_exps)) + 1])]

\* Faulty variant: the denominator is expanded as well.
QuotientFunction_expand_vec_ExpandBottom(self, t_exps) ==
    [i \in 1..Len(t_exps) |->
        div(t_exps[i], SumFunction_from_many(expand_vec(self.bottom)).value)]

QuotientFunction_expand_vec(self, t_exps) ==
    [i \in 1..Len(t_exps) |-> div(t_exps[i], self.bottom)]

ComposedFunction_expand_vec(self) == <<of(self.source, self.target)>>

expand_vec(self) ==
    CASE self.kind \in UnaryKinds -> UnaryFunction_expand_vec(self)
      [] self.kind = "Sum" ->
            SumFunction_expand_vec(expand_vec(self.left), expand_vec(self.right))
      [] self.kind = "Difference" ->
            DifferenceFunction_expand_vec(expand_vec(self.left),
                                          expand_vec(self.right))
      [] self.kind = "Negative" -> NegativeFunction_expand_vec(self)
      [] self.kind = "Product" ->
            ProductFunction_expand_vec(expand_vec(self.left),
                                       expand_vec(self.right))
      [] self.kind = "Quotient" ->
            QuotientFunction_expand_vec(self, expand_vec(self.top))
      [] self.kind = "Composed" -> ComposedFunction_expand_vec(self)

\* FunctionTrait::expand
expand(self) == SumFunction_from_many(expand_vec(self))

----------------------------------------------------------------------------
(* f64 values *)

(***************************************************************************)
(* An f64 is modelled exactly, as an extended rational n/d in lowest terms *)
(* with d >= 0: d = 0 gives the IEEE-754 specials (1/0 = inf, -1/0 = -inf, *)
(* 0/0 = NaN).  Rounding and the sign of zero are not modelled.  A value   *)
(* with ok = FALSE is the outcome of a call that resolves to no method.    *)
(***************************************************************************)
Abs(n) == IF n < 0 THEN -n ELSE n
Sign(n) == IF n < 0 THEN -1 ELSE IF n > 0 THEN 1 ELSE 0

RECURSIVE Gcd(_, _)
Gcd(a, b) == IF b = 0 THEN a ELSE Gcd(b, a % b)

Num(n, d) ==
    IF d = 0 THEN [ok |-> TRUE, n |-> Sign(n), d |-> 0]
    ELSE LET g == Gcd(Abs(n), Abs(d))
         IN  [ok |-> TRUE, n |-> Sign(d) * Sign(n) * (Abs(n) \div g),
              d |-> Abs(d) \div g]

F64(i) == Num(i, 1)
NaN == Num(0, 0)
NoValue == [ok |-> FALSE, n |-> 0, d |-> 0]

IsFinite(v) == v.ok /\ v.d > 0

FNeg(a) == IF ~a.ok THEN NoValue ELSE Num(-a.n, a.d)

FAdd(a, b) ==
    IF ~a.ok \/ ~b.ok THEN NoValue
    ELSE IF a.d = 0 /\ b.d = 0
         THEN (IF a.n = b.n THEN a ELSE NaN)
         ELSE Num(a.n * b.d + b.n * a.d, a.d * b.d)

FSub(a, b) == FAdd(a, FNeg(b))

FMul(a, b) ==
    IF ~a.ok \/ ~b.ok THEN NoValue ELSE Num(a.n * b.n, a.d * b.d)

FDiv(a, b) ==
    IF ~a.ok \/ ~b.ok THEN NoValue
    ELSE IF a.d = 0 /\ b.d = 0 THEN NaN
         ELSE Num(a.n * b.d, a.d * b.n)

(***************************************************************************)
(* f64::sin, cos, exp and ln are transcendental; each is modelled on       *)
(* finite arguments n/d by a rational approximant of degree two            *)
(* (6x/(6+x^2), 1-x^2/2, 1+x+x^2/2, 2(x-1)/(x+1)) and on the specials by   *)
(* its IEEE-754 value.                                                     *)
(***************************************************************************)
f64_sin(x) ==
    IF ~x.ok THEN NoValue
    ELSE IF x.d = 0 THEN NaN
         ELSE Num(6 * x.n * x.d, 6 * x.d * x.d + x.n * x.n)

f64_cos(x) ==
    IF ~x.ok THEN NoValue
    ELSE IF x.d = 0 THEN NaN
         ELSE Num(2 * x.d * x.d - x.n * x.n, 2 * x.d * x.d)

f64_exp(x) ==
    IF ~x.ok THEN NoValue
    ELSE IF x.d = 0 THEN (IF x.n = -1 THEN F64(0) ELSE x)
         ELSE Num(2 * x.d * x.d + 2 * x.n * x.d + x.n * x.n, 2 * x.d * x.d)

f64_ln(x) ==
    IF ~x.ok THEN NoValue
    ELSE IF x.n < 0 \/ (x.n = 0 /\ x.d = 0) THEN NaN
         ELSE IF x.n = 0 THEN Num(-1, 0)
              ELSE IF x.d = 0 THEN x
                   ELSE Num(2 * (x.n - x.d), x.n + x.d)

----------------------------------------------------------------------------
(* eval *)

(***************************************************************************)
(* FunctionTrait declares eval, diff and expand_vec and nothing else; no   *)
(* trait, impl or extension in the repository gives a Function a method    *)
(* named `evaluate`.  The binary combinators call `evaluate` on their      *)
(* second child, a call that resolves to no method, so the call and every  *)
(* expression that needs its result has no value.                          *)
(***************************************************************************)
evaluate(self, x) == NoValue

UnaryFunction_eval(self, x) ==
    IF ~x.ok THEN NoValue
    ELSE CASE self.kind = "Const" -> F64(self.c)
           [] self.kind = "Id" -> x
           [] self.kind = "Sin" -> f64_sin(x)
           [] self.kind = "Cos" -> f64_cos(x)
           [] self.kind = "Exp" -> f64_exp(x)
           [] self.kind = "Log" -> f64_ln(x)

SumFunction_eval(self, l_val, x) == FAdd(l_val, evaluate(self.right, x))

DifferenceFunction_eval(self, l_val, x) == FSub(l_val, evaluate(self.right, x))

NegativeFunction_eval(s_val) == FNeg(s_val)

ProductFunction_eval(self, l_val, x) == FMul(l_val, evaluate(self.right, x))

QuotientFunction_eval(self, t_val, x) == FDiv(t_val, evaluate(self.bottom, x))

\* The argument source.eval is called with.
ComposedFunction_eval_arg(self, x) == evaluate(self.target, x)

\* FunctionTrait::eval, dispatched on the implementing struct.
RECURSIVE eval(_, _)
eval(self, x) ==
    IF ~x.ok THEN NoValue
    ELSE CASE self.kind \in UnaryKinds -> UnaryFunction_eval(self, x)
           [] self.kind = "Sum" -> SumFunction_eval(self, eval(self.left, x), x)
           [] self.kind = "Difference" ->
                 DifferenceFunction_eval(self, eval(self.left, x), x)
           [] self.kind = "Negative" ->
                 NegativeFunction_eval(eval(self.source, x))
           [] self.kind = "Product" ->
                 ProductFunction_eval(self, eval(self.left, x), x)
           [] self.kind = "Quotient" ->
                 QuotientFunction_eval(self, eval(self.top, x), x)
           [] self.kind = "Composed" ->
                 eval(self.source, ComposedFunction_eval_arg(self, x))

(***************************************************************************)
(* The real function an expression represents (spec.md, section 3, the     *)
(* column "Represents"), in the same arithmetic: the reference the results *)
(* of eval are compared with.                                              *)
(***************************************************************************)
RECURSIVE Represents(_, _)
Represents(f, x) ==
    CASE f.kind \in UnaryKinds -> UnaryFunction_eval(f, x)
      [] f.kind = "Negative" -> FNeg(Represents(f.source, x))
      [] f.kind = "Sum" -> FAdd(Represents(f.left, x), Represents(f.right, x))
      [] f.kind = "Difference" ->
            FSub(Represents(f.left, x), Represents(f.right, x))
      [] f.kind = "Product" ->
            FMul(Represents(f.left, x), Represents(f.right, x))
      [] f.kind = "Quotient" ->
            FDiv(Represents(f.top, x), Represents(f.bottom, x))
      [] f.kind = "Composed" ->
            Represents(f.source, Represents(f.target, x))

\* f is defined at x: every intermediate value of the reference is finite.
RECURSIVE DefinedAt(_, _)
DefinedAt(f, x) ==
    /\ IsFinite(x)
    /\ IsFinite(Represents(f, x))
    /\ CASE f.kind \in UnaryKinds -> TRUE
         [] f.kind = "Negative" -> DefinedAt(f.source, x)
         [] f.kind \in {"Sum", "Difference", "Product"} ->
               DefinedAt(f.left, x) /\ DefinedAt(f.right, x)
         [] f.kind = "Quotient" -> DefinedAt(f.top, x) /\ DefinedAt(f.bottom, x)
         [] f.kind = "Composed" ->
               /\ DefinedAt(f.target, x)
               /\ DefinedAt(f.source, Represents(f.target, x))

----------------------------------------------------------------------------
(* Display *)

(***************************************************************************)
(* A String is the sequence of its characters.                             *)
(***************************************************************************)
Digits == <<"0", "1", "2", "3", "4", "5", "6", "7", "8", "9">>

\* f64::to_string of a non-negative integral value: its decimal digits.
RECURSIVE f64_to_string(_)
f64_to_string(c) ==
    IF c < 10 THEN <<Digits[c + 1]>>
    ELSE f64_to_string(c \div 10) \o <<Digits[(c % 10) + 1]>>

\* str::replace: every non-overlapping match of `from`, left to right.
RECURSIVE str_replace(_, _, _)
str_replace(s, from, to) ==
    IF Len(s) < Len(from) THEN s
    ELSE IF SubSeq(s, 1, Len(from)) = from
         THEN to \o str_replace(SubSeq(s, Len(from) + 1, Len(s)), from, to)
         ELSE <<Head(s)>> \o str_replace(Tail(s), from, to)

UnaryFunction_fmt(self) ==
    LET plain ==
            CASE self.kind = "Const" -> f64_to_string(self.c)
              [] self.kind = "Id" -> <<"x">>
              [] self.kind = "Sin" -> <<"s", "i", "n", "(", "x", ")">>
              [] self.kind = "Cos" -> <<"c", "o", "s", "(", "x", ")">>
              [] self.kind = "Exp" -> <<"e", "x", "p", "(", "x", ")">>
              [] self.kind = "Log" -> <<"l", "n", "(", "x", ")">>
    IN  <<"(">> \o plain \o <<")">>

SumFunction_fmt(left, right) ==
    <<"(">> \o left \o <<" ", "+", " ">> \o right \o <<")">>

DifferenceFunction_fmt(left, right) ==
    <<"(">> \o left \o <<" ", "-", " ">> \o right \o <<")">>

NegativeFunction_fmt(source) == <<"-">> \o source

ProductFunction_fmt(left, right) ==
    <<"(">> \o left \o <<" ", "*", " ">> \o right \o <<")">>

QuotientFunction_fmt(top, bottom) ==
    <<"(">> \o top \o <<" ", "/", " ">> \o bottom \o <<")">>

\* Faulty variant: the bare variable token is substituted.
ComposedFunction_fmt_BareToken(source_of_x, target_of_x) ==
    str_replace(source_of_x, <<"x">>, target_of_x)

ComposedFunction_fmt(source_of_x, target_of_x) ==
    str_replace(source_of_x, <<"(", "x", ")">>, target_of_x)

\* ToString::to_string through fmt::Display, dispatched on the struct.
RECURSIVE to_string(_)
to_string(self) ==
    CASE self.kind \in UnaryKinds -> UnaryFunction_fmt(self)
      [] self.kind = "Sum" ->
            SumFunction_fmt(to_string(self.left), to_string(self.right))
      [] self.kind = "Difference" ->
            DifferenceFunction_fmt(to_string(self.left), to_string(self.right))
      [] self.kind = "Negative" -> NegativeFunction_fmt(to_string(self.source))
      [] self.kind = "Product" ->
            ProductFunction_fmt(to_string(self.left), to_string(self.right))
      [] self.kind = "Quotient" ->
            QuotientFunction_fmt(to_string(self.top), to_string(self.bottom))
      [] self.kind = "Composed" ->
            ComposedFunction_fmt(to_string(self.source), to_string(self.target))

----------------------------------------------------------------------------
(* The caller *)

(***************************************************************************)
(* f is the Function the caller holds and last is the last call it made on *)
(* it: the operation, its receiver and arguments, and what it returned.    *)
(***************************************************************************)
VARIABLES f, last

vars == <<f, last>>

NoCall ==
    [op |-> "none", arg |-> NoFunction, x |-> NoValue, many |-> <<>>,
     out |-> Returned(NoFunction), vec |-> <<>>, val |-> NoValue, str |-> <<>>]

SamplePoints == {F64(i) : i \in (-MaxX)..MaxX}

\* The vector a slice is taken of: the terms of f, then f and two leaves.
CallerVec == expand_vec(f) \o <<f, Id, Const(1)>>

Init ==
    /\ f \in Universe
    /\ last = NoCall

\* f.of(other), f.add(other), f.sub(other), f.mul(other), f.div(other)
CombineSelf ==
    \E op \in BinaryOps, other \in DeepLeaves :
        /\ last = NoCall
        /\ Combine(op, f, other) \in Universe
        /\ f' = Combine(op, f, other)
        /\ UNCHANGED last

\* the same with f as the argument
CombineOther ==
    \E op \in BinaryOps, self \in DeepLeaves :
        /\ last = NoCall
        /\ Combine(op, self, f) \in Universe
        /\ f' = Combine(op, self, f)
        /\ UNCHANGED last

\* Rc::clone(&f) as the argument
CombineClone ==
    \E op \in BinaryOps :
        /\ last = NoCall
        /\ Combine(op, f, f) \in Universe
        /\ f' = Combine(op, f, f)
        /\ UNCHANGED last

Neg ==
    /\ last = NoCall
    /\ neg(f) \in Universe
    /\ f' = neg(f)
    /\ UNCHANGED last

Eval ==
    \E x \in SamplePoints :
        /\ last = NoCall
        /\ last' = [NoCall EXCEPT !.op = "eval", !.arg = f, !.x = x,
                                  !.val = eval(f, x)]
        /\ UNCHANGED f

Diff ==
    /\ last = NoCall
    /\ last' = [NoCall EXCEPT !.op = "diff", !.arg = f,
                              !.out = Returned(diff(f))]
    /\ UNCHANGED f

ExpandVec ==
    /\ last = NoCall
    /\ last' = [NoCall EXCEPT !.op = "expand_vec", !.arg = f,
                              !.vec = expand_vec(f)]
    /\ UNCHANGED f

\* let f = f.expand();
Expand ==
    /\ last = NoCall
    /\ last' = [NoCall EXCEPT !.op = "expand", !.arg = f, !.out = expand(f)]
    /\ f' = IF expand(f).panicked THEN f ELSE expand(f).value

FromMany ==
    \E k \in 0..MaxLen :
        LET many == SubSeq(CallerVec, 1, k)
        IN  /\ last = NoCall
            /\ last' = [NoCall EXCEPT !.op = "from_many", !.many = many,
                                      !.out = SumFunction_from_many(many)]
            /\ UNCHANGED f

Display ==
    /\ last = NoCall
    /\ last' = [NoCall EXCEPT !.op = "to_string", !.arg = f,
                              !.str = to_string(f)]
    /\ UNCHANGED f

\* The caller is done with what the last call returned.
Drop ==
    /\ last # NoCall
    /\ last' = NoCall
    /\ UNCHANGED f

Next ==
    \/ CombineSelf
    \/ CombineOther
    \/ CombineClone
    \/ Neg
    \/ Eval
    \/ Diff
    \/ ExpandVec
    \/ Expand
    \/ FromMany
    \/ Display
    \/ Drop

Spec == Init /\ [][Next]_vars

----------------------------------------------------------------------------
(* Properties *)

\* The derivative the rule table of section 4.2 gives, written out as trees.
RECURSIVE RuleTable(_)
RuleTable(e) ==
    CASE e.kind = "Const" -> [kind |-> "Const", c |-> 0]
      [] e.kind = "Id" -> [kind |-> "Const", c |-> 1]
      [] e.kind = "Sin" -> [kind |-> "Cos"]
      [] e.kind = "Cos" -> [kind |-> "Negative", source |-> [kind |-> "Sin"]]
      [] e.kind = "Exp" -> [kind |-> "Exp"]
      [] e.kind = "Log" ->
            [kind |-> "Quotient", top |-> [kind |-> "Const", c |-> 1],
             bottom |-> [kind |-> "Id"]]
      [] e.kind = "Negative" ->
            [kind |-> "Negative", source |-> RuleTable(e.source)]
      [] e.kind = "Sum" ->
            [kind |-> "Sum", left |-> RuleTable(e.left),
             right |-> RuleTable(e.right)]
      [] e.kind = "Difference" ->
            [kind |-> "Difference", left |-> RuleTable(e.left),
             right |-> RuleTable(e.right)]
      [] e.kind = "Product" ->
            [kind |-> "Sum",
             left |-> [kind |-> "Product", left |-> RuleTable(e.left),
                       right |-> e.right],
             right |-> [kind |-> "Product", left |-> RuleTable(e.right),
                        right |-> e.left]]
      [] e.kind = "Quotient" ->
            [kind |-> "Quotient",
             top |-> [kind |-> "Difference",
                      left |-> [kind |-> "Product", left |-> RuleTable(e.top),
                                right |-> e.bottom],
                      right |-> [kind |-> "Product",
                                 left |-> RuleTable(e.bottom),
                                 right |-> e.top]],
             bottom |-> [kind |-> "Product", left |-> e.bottom,
                         right |-> e.bottom]]
      [] e.kind = "Composed" ->
            [kind |-> "Product",
             left |-> [kind |-> "Composed", source |-> RuleTable(e.source),
                       target |-> e.target],
             right |-> RuleTable(e.target)]

\* Sum(t1, Sum(t2, ... Sum(t(n-1), tn))) of a non-empty list, t1 for n = 1.
RECURSIVE RightSum(_)
RightSum(ts) ==
    IF Len(ts) = 1 THEN ts[1]
    ELSE [kind |-> "Sum", left |-> ts[1], right |-> RightSum(Tail(ts))]

\* The places where the placeholder "(x)" starts in s.
Placeholders(s) ==
    {i \in 1..(Len(s) - 2) : SubSeq(s, i, i + 2) = <<"(", "x", ")">>}

PlaceholdersBefore(s, i) == Cardinality({j \in Placeholders(s) : j < i})

InPlaceholder(s, i) == \E j \in Placeholders(s) : j <= i /\ i <= j + 2

\* C1: expansion preserves value: at every sample point x at which e is
\* defined, e.expand().eval(x) is e's value there, the same as e.eval(x).
C1_ExpandPreservesEval ==
    (last.op = "expand" /\ ~last.out.panicked) =>
        \A x \in SamplePoints :
            DefinedAt(last.arg, x) =>
                /\ IsFinite(eval(last.arg, x))
                /\ eval(last.out.value, x) = eval(last.arg, x)

\* Expansion preserves the function an expression represents, wherever the
\* function is defined.
ExpandPreservesRepresents ==
    (last.op = "expand" /\ ~last.out.panicked) =>
        \A x \in SamplePoints :
            DefinedAt(last.arg, x) =>
                Represents(last.out.value, x) = Represents(last.arg, x)

\* C2: diff() always succeeds and returns exactly the tree of the
\* structural rule table, unsimplified, with the original operands reused.
C2_DiffRuleTable ==
    last.op = "diff" =>
        /\ ~last.out.panicked
        /\ last.out.value = RuleTable(last.arg)

\* The quotient rule over two products.
C2_Witness ==
    /\ last.op = "diff"
    /\ last.arg.kind = "Quotient"
    /\ last.arg.top.kind = "Product"
    /\ last.arg.bottom.kind = "Product"
    /\ last.out.value.kind = "Quotient"

\* C3: eval(x) of a combinator is the operator applied to its children's
\* eval(x): Sum adds, Difference subtracts, Negation negates, Product
\* multiplies, Quotient divides top by bottom, source.of(target) is source
\* at target(x); Const(c) is c at every x and Id is x.
C3_EvalFromChildren ==
    last.op = "eval" =>
        LET e == last.arg
            x == last.x
        IN  /\ e.kind = "Const" => last.val = F64(e.c)
            /\ e.kind = "Id" => last.val = x
            /\ e.kind = "Sum" =>
                  last.val = FAdd(eval(e.left, x), eval(e.right, x))
            /\ e.kind = "Difference" =>
                  last.val = FSub(eval(e.left, x), eval(e.right, x))
            /\ e.kind = "Negative" => last.val = FNeg(eval(e.source, x))
            /\ e.kind = "Product" =>
                  last.val = FMul(eval(e.left, x), eval(e.right, x))
            /\ e.kind = "Quotient" =>
                  last.val = FDiv(eval(e.top, x), eval(e.bottom, x))
            /\ e.kind = "Composed" =>
                  last.val = eval(e.source, eval(e.target, x))

\* C4: expand_vec() of Product(l, r) has exactly m * n terms, m and n the
\* numbers of terms of l and r: Product(l_i, r_j) for every pair (i, j),
\* once each, all the pairs of l_1 first, then those of l_2, and so on.
C4_ProductCrossProduct ==
    (last.op = "expand_vec" /\ last.arg.kind = "Product") =>
        LET l == expand_vec(last.arg.left)
            r == expand_vec(last.arg.right)
        IN  /\ Len(last.vec) = Len(l) * Len(r)
            /\ \A i \in 1..Len(l), j \in 1..Len(r) :
                  last.vec[(i - 1) * Len(r) + j]
                      = [kind |-> "Product", left |-> l[i], right |-> r[j]]

C4_Witness ==
    /\ last.op = "expand_vec"
    /\ last.arg.kind = "Product"
    /\ Len(expand_vec(last.arg.left)) >= 2
    /\ Len(expand_vec(last.arg.right)) >= 2
    /\ Len(last.vec) >= 4

\* C5: expand_vec() of Quotient(top, bottom) is one Quotient(t, bottom) per
\* term t of top, in the same order, and every denominator is the original
\* bottom, not expanded.
C5_QuotientNumeratorOnly ==
    (last.op = "expand_vec" /\ last.arg.kind = "Quotient") =>
        LET t == expand_vec(last.arg.top)
        IN  /\ Len(last.vec) = Len(t)
            /\ \A i \in 1..Len(t) :
                  last.vec[i] = [kind |-> "Quotient", top |-> t[i],
                                 bottom |-> last.arg.bottom]

\* The denominator is a Difference, whose expansion is another tree.
C5_Witness ==
    /\ last.op = "expand_vec"
    /\ last.arg.kind = "Quotient"
    /\ last.arg.bottom.kind = "Difference"
    /\ Len(last.vec) >= 2
    /\ expand(last.arg.bottom).value # last.arg.bottom

\* C6: expand_vec() has at least one term, and expand() does not panic.
C6_ExpandVecNonEmpty ==
    /\ last.op = "expand_vec" => Len(last.vec) >= 1
    /\ last.op = "expand" => ~last.out.panicked /\ last.out.value # NoFunction

C6_Witness ==
    /\ last.op = "expand"
    /\ last.arg.kind = "Product"
    /\ last.arg.left = Const(0)
    /\ ~last.out.panicked

\* C7: from_many of an empty slice panics and returns no expression.
C7_EmptyFoldPanics ==
    (last.op = "from_many" /\ Len(last.many) = 0) =>
        /\ last.out.panicked
        /\ last.out.value = NoFunction

C7_Witness ==
    /\ last.op = "from_many"
    /\ last.many = <<>>
    /\ last.out.panicked

\* C8: expand() folds the terms [t1, ..., tn] to the right: t1 itself for
\* n = 1, Sum(t1, Sum(t2, ... Sum(t(n-1), tn))) for n >= 2; so
\* Const(2.0).mul(Id).expand() is Product(Const(2.0), Id).
C8_RightFold ==
    /\ (last.op = "from_many" /\ Len(last.many) >= 1) =>
          last.out = [panicked |-> FALSE, value |-> RightSum(last.many)]
    /\ last.op = "expand" =>
          last.out = [panicked |-> FALSE,
                      value |-> RightSum(expand_vec(last.arg))]
    /\ (last.op = "expand"
        /\ last.arg = [kind |-> "Product", left |-> [kind |-> "Const", c |-> 2],
                       right |-> [kind |-> "Id"]]) =>
          last.out.value = last.arg

C8_Witness ==
    /\ last.op = "expand"
    /\ Len(expand_vec(last.arg)) >= 3
    /\ last.out.value.kind = "Sum"
    /\ last.out.value.right.kind = "Sum"

\* C9: the rendering of Composition(source, target) is the rendering of
\* source with every "(x)" replaced by the rendering of target and every
\* other character unchanged, for nested compositions too.
C9_ComposedRendering ==
    (last.op = "to_string" /\ last.arg.kind = "Composed") =>
        LET s == to_string(last.arg.source)
            t == to_string(last.arg.target)
            r == last.str
            at(i) == i + PlaceholdersBefore(s, i) * (Len(t) - 3)
        IN  /\ Len(r) = Len(s) + Cardinality(Placeholders(s)) * (Len(t) - 3)
            /\ \A j \in Placeholders(s) :
                  SubSeq(r, at(j), at(j) + Len(t) - 1) = t
            /\ \A i \in 1..Len(s) : ~InPlaceholder(s, i) => r[at(i)] = s[i]

\* A composition whose source is a composition of exp.
C9_Witness ==
    /\ last.op = "to_string"
    /\ last.arg.kind = "Composed"
    /\ last.arg.source.kind = "Composed"
    /\ last.arg.source.source = Exp
    /\ Placeholders(to_string(last.arg.source)) # {}
    /\ last.str # to_string(last.arg.source)

\* C10: expansion is idempotent: every term t of e.expand_vec() has
\* t.expand_vec() = [t], and e.expand().expand() is e.expand().
C10_ExpandIdempotent ==
    /\ last.op = "expand_vec" =>
          \A i \in 1..Len(last.vec) : expand_vec(last.vec[i]) = <<last.vec[i]>>
    /\ (last.op = "expand" /\ ~last.out.panicked) =>
          expand(last.out.value) = last.out

\* The expansion of a tree that an earlier expansion produced (only expand
\* takes f out of Universe).
C10_Witness ==
    /\ last.op = "expand"
    /\ last.arg = f
    /\ f \notin Universe
    /\ last.out.value = f

====
